---- MODULE Spec2Model ----
(***************************************************************************)
(* Stockflow: the stock ledger (StockItem rows), the audit log             *)
(* (InventoryLog rows) and the three operations that move stock:           *)
(*   InventoryLogService.createManual, InventoryLogService.revert and the  *)
(*   createSale transaction (validateSaleItems, allocateStock,             *)
(*   createSaleItems, processInventoryMovements).                          *)
(* Every request is served by its own task; the awaits of the handlers are *)
(* the points where the tasks interleave.  The tasks in flight are a bag:  *)
(* a task is its position, its request and its locals, nothing else tells  *)
(* two tasks apart.  The store is PostgreSQL at                            *)
(* READ COMMITTED: a transaction's writes become visible at its commit, an *)
(* updated row stays locked until then.                                    *)
(***************************************************************************)
EXTENDS Integers, Sequences, FiniteSets, Bags, TLC

\* ---------------------------------------------------------------- bounds
MaxProcs == 2        \* request tasks that can be in flight together
MaxOps == 3          \* requests started in one behaviour
MaxQty == 2          \* largest quantity of a seeded lot and of a request

\* ------------------------------------------------------------ static data
Companies == {"A", "B"}

\* productVariant -> product -> companyId; "v9" is an id with no row
VariantCompany == [v \in {"v1", "v2"} |-> IF v = "v1" THEN "A" ELSE "B"]
VariantIds == DOMAIN VariantCompany
RequestVariantIds == VariantIds \cup {"v9"}

UserOf(c) == "user-" \o c

\* client -> companyId
ClientCompany == [cl \in {"c1", "c2"} |-> IF cl = "c1" THEN "A" ELSE "B"]

Min(a, b) == IF a <= b THEN a ELSE b

\* ------------------------------------------------------------- variables
VARIABLES
    lots,       \* stockItem table: id -> row
    logs,       \* inventoryLog table, in insertion order; the id is the index
    sales,      \* sale table
    saleItems,  \* saleItem table
    nextSaleId, \* ids handed out by sale.create
    tasks,      \* the request tasks in flight: a bag of [pc, req, local]
    response,   \* the response sent last: what a handler returned or threw
    nOps        \* requests started so far

vars == <<lots, logs, sales, saleItems, nextSaleId, tasks, response, nOps>>

\* --------------------------------------------------------------- records
NoReq == [op |-> "none", companyId |-> "A", stockItemId |-> 0, quantityChange |-> 0,
          type |-> "ADJUSTMENT", isManual |-> <<>>, logId |-> 0, items |-> <<>>,
          clientId |-> <<>>, stock |-> <<>>]

NoLocal == [previousQty |-> 0, newQty |-> 0, stockItemId |-> 0, i |-> 0,
            allocations |-> <<>>, saleId |-> 0,
            txSale |-> <<>>, txItems |-> <<>>, txLogs |-> <<>>, txDecrements |-> <<>>]

NoResult == [code |-> "none", variants |-> <<>>, missing |-> 0]
Ok == [code |-> "ok", variants |-> <<>>, missing |-> 0]
Threw(c) == [code |-> c, variants |-> <<>>, missing |-> 0]

\* ------------------------------------------------------- tenant scoping
\* where: { id, productVariant: { product: { companyId } } }
LotOfCompany(ls, id, c) ==
    /\ id \in DOMAIN ls
    /\ ls[id].productVariantId \in VariantIds
    /\ VariantCompany[ls[id].productVariantId] = c

\* the companyId left out of the where
LogOfCompany_AnyTenant(lg, id, c) == id \in 1..Len(lg)

\* where: { id: logId, companyId }
LogOfCompany(lg, id, c) ==
    /\ id \in 1..Len(lg)
    /\ lg[id].companyId = c

\* ------------------------------------------------------ task bookkeeping
\* the first read and the checks of a handler passed: its task is in flight
Starts(t) ==
    /\ tasks' = tasks (+) SetToBag({t})
    /\ UNCHANGED response

\* the first read or a check of a handler threw: no task stays in flight
Rejects(r) ==
    /\ response' = r
    /\ UNCHANGED tasks

\* task t goes on to its next await as t2
Continues(t, t2) ==
    /\ tasks' = (tasks (-) SetToBag({t})) (+) SetToBag({t2})
    /\ UNCHANGED response

\* a handler returns or throws: the response goes out, the task's locals and
\* request are gone
Finish(t, r) ==
    /\ tasks' = tasks (-) SetToBag({t})
    /\ response' = r

\* a request arrives
Arrives ==
    /\ BagCardinality(tasks) < MaxProcs
    /\ nOps < MaxOps
    /\ nOps' = nOps + 1

\* a row updated by a transaction that has not committed yet is locked:
\* another writer of that row waits
LockedByOther(t, id) ==
    \E q \in BagToSet(tasks (-) SetToBag({t})) :
        /\ q.pc = "cs_commit"
        /\ \E k \in 1..Len(q.local.txDecrements) : q.local.txDecrements[k].stockItemId = id

\* ------------------------------------------- InventoryLogService.createManual
\* the change taken with the wrong sign
ManualNewQty_Minus(previousQty, quantityChange) == previousQty - quantityChange

\* const newQty = previousQty + dto.quantityChange
ManualNewQty(previousQty, quantityChange) == previousQty + quantityChange

\* isManual: dto.isManual ?? true
ManualFlag(isManual) == IF isManual = <<>> THEN TRUE ELSE isManual[1]

ManualLog(r, l) ==
    [stockItemId |-> l.stockItemId, type |-> r.type, quantityChange |-> r.quantityChange,
     previousQty |-> l.previousQty, newQty |-> l.newQty,
     isManual |-> ManualFlag(r.isManual), isReverted |-> FALSE,
     sourceId |-> <<>>, companyId |-> r.companyId,
     userId |-> UserOf(r.companyId), revertedById |-> <<>>]

\* lines 16-27: findFirst, the NotFound check, newQty and the negative check
CreateManualFind(dtos, companies) ==
    \E dto \in dtos, c \in companies :
        LET r == [NoReq EXCEPT !.op = "createManual", !.companyId = c,
                               !.stockItemId = dto.stockItemId,
                               !.quantityChange = dto.quantityChange,
                               !.type = dto.type, !.isManual = dto.isManual]
        IN
        /\ Arrives
        /\ IF ~LotOfCompany(lots, dto.stockItemId, c)
             THEN Rejects(Threw("NotFound: stock item not found for this company"))
             ELSE LET previousQty == lots[dto.stockItemId].quantity
                      newQty == ManualNewQty(previousQty, dto.quantityChange)
                  IN IF newQty < 0
                       THEN Rejects(Threw("BadRequest: resulting quantity cannot be negative"))
                       ELSE Starts([pc |-> "cm_tx", req |-> r,
                                    local |-> [NoLocal EXCEPT !.previousQty = previousQty,
                                                              !.newQty = newQty,
                                                              !.stockItemId = dto.stockItemId]])
        /\ UNCHANGED <<lots, logs, sales, saleItems, nextSaleId>>

\* lines 29-50: the transaction: stockItem.update to newQty, inventoryLog.create
CreateManualTx ==
    \E t \in BagToSet(tasks) :
        /\ t.pc = "cm_tx"
        /\ ~LockedByOther(t, t.local.stockItemId)
        /\ IF t.local.stockItemId \in DOMAIN lots
             THEN /\ lots' = [lots EXCEPT ![t.local.stockItemId].quantity = t.local.newQty]
                  /\ logs' = Append(logs, ManualLog(t.req, t.local))
                  /\ Finish(t, Ok)
             ELSE /\ UNCHANGED <<lots, logs>>
                  /\ Finish(t, Threw("Error: record to update not found"))
        /\ UNCHANGED <<sales, saleItems, nextSaleId, nOps>>

\* --------------------------------------------------- InventoryLogService.revert
\* the change applied again instead of undone
RevertNewQty_Plus(quantity, quantityChange) == quantity + quantityChange

\* const newQty = stockItem.quantity - log.quantityChange
RevertNewQty(quantity, quantityChange) == quantity - quantityChange

\* the check of line 74 left out
RevertRefused_Never(log) == FALSE

\* line 74: if (log.isReverted) throw
RevertRefused(log) == log.isReverted

\* lines 72-74: findFirst of the log, NotFound, already reverted
RevertFindLog(logIds, companies) ==
    \E id \in logIds, c \in companies :
        /\ Arrives
        /\ IF ~LogOfCompany(logs, id, c)
             THEN Rejects(Threw("NotFound: inventory log not found"))
             ELSE IF RevertRefused(logs[id])
               THEN Rejects(Threw("BadRequest: log already reverted"))
               ELSE Starts([pc |-> "rv_findLot", local |-> NoLocal,
                            req |-> [NoReq EXCEPT !.op = "revert", !.companyId = c,
                                                  !.logId = id]])
        /\ UNCHANGED <<lots, logs, sales, saleItems, nextSaleId>>

\* lines 76-84: findFirst of the lot, NotFound, newQty and the negative check
RevertFindLot ==
    \E t \in BagToSet(tasks) :
        /\ t.pc = "rv_findLot"
        /\ LET log == logs[t.req.logId]
           IN IF ~LotOfCompany(lots, log.stockItemId, t.req.companyId)
                THEN Finish(t, Threw("NotFound: stock item not found for this company"))
                ELSE LET newQty == RevertNewQty(lots[log.stockItemId].quantity, log.quantityChange)
                     IN IF newQty < 0
                          THEN Finish(t, Threw("BadRequest: reversion would result in negative quantity"))
                          ELSE Continues(t, [t EXCEPT !.pc = "rv_tx",
                                                      !.local = [NoLocal EXCEPT
                                                          !.newQty = newQty,
                                                          !.stockItemId = log.stockItemId]])
        /\ UNCHANGED <<lots, logs, sales, saleItems, nextSaleId, nOps>>

\* the update also rewrites the row's quantities to the lot's new state
MarkReverted_Rewrites(log, revertedById) ==
    [log EXCEPT !.isReverted = TRUE, !.revertedById = <<revertedById>>,
                !.previousQty = log.newQty, !.newQty = log.previousQty]

\* data: { isReverted: true, revertedById }
MarkReverted(log, revertedById) ==
    [log EXCEPT !.isReverted = TRUE, !.revertedById = <<revertedById>>]

\* lines 86-94: the transaction: stockItem.update to newQty, the flag flip
RevertTx ==
    \E t \in BagToSet(tasks) :
        /\ t.pc = "rv_tx"
        /\ ~LockedByOther(t, t.local.stockItemId)
        /\ IF t.local.stockItemId \in DOMAIN lots
             THEN /\ lots' = [lots EXCEPT ![t.local.stockItemId].quantity = t.local.newQty]
                  /\ logs' = [logs EXCEPT ![t.req.logId] =
                                    MarkReverted(@, UserOf(t.req.companyId))]
                  /\ Finish(t, Ok)
             ELSE /\ UNCHANGED <<lots, logs>>
                  /\ Finish(t, Threw("Error: record to update not found"))
        /\ UNCHANGED <<sales, saleItems, nextSaleId, nOps>>

\* ------------------------------------------------------------- createSale
\* the product: { companyId } filter left out: any existing variant passes
MissingIds_AnyTenant(items, companyId) ==
    LET IsMissing(item) == item.productVariantId \notin VariantIds
        missing == SelectSeq(items, IsMissing)
    IN [k \in 1..Len(missing) |-> missing[k].productVariantId]

\* the check stops at the first id that has no variant row of companyId
MissingIds_FirstOnly(items, companyId) ==
    LET IsMissing(item) == \/ item.productVariantId \notin VariantIds
                           \/ VariantCompany[item.productVariantId] # companyId
        missing == SelectSeq(items, IsMissing)
    IN IF missing = <<>> THEN <<>> ELSE <<missing[1].productVariantId>>

\* validateSaleItems: the requested ids that have no variant row of companyId
MissingIds(items, companyId) ==
    LET existingIds == {v \in VariantIds :
                          /\ \E k \in 1..Len(items) : items[k].productVariantId = v
                          /\ VariantCompany[v] = companyId}
        IsMissing(item) == item.productVariantId \notin existingIds
        missing == SelectSeq(items, IsMissing)
    IN [k \in 1..Len(missing) |-> missing[k].productVariantId]

\* an ascending order that puts NULL first
OrderedBefore_NullsFirst(a, b) ==
    \/ /\ a.expirationDate # b.expirationDate
       /\ \/ a.expirationDate = <<>>
          \/ /\ b.expirationDate # <<>>
             /\ a.expirationDate[1] < b.expirationDate[1]
    \/ /\ a.expirationDate = b.expirationDate
       /\ a.createdAt < b.createdAt

\* orderBy: [{ expirationDate: 'asc' }, { createdAt: 'asc' }]; PostgreSQL puts
\* NULL last in an ascending order
OrderedBefore(a, b) ==
    \/ /\ a.expirationDate # <<>>
       /\ \/ b.expirationDate = <<>>
          \/ a.expirationDate[1] < b.expirationDate[1]
    \/ /\ a.expirationDate = b.expirationDate
       /\ a.createdAt < b.createdAt

\* the filter on quantity left out
AvailableLots_All(ls, variantId) ==
    {id \in DOMAIN ls : ls[id].productVariantId = variantId}

\* where: { productVariantId, quantity: { gt: 0 } }
AvailableLots(ls, variantId) ==
    {id \in DOMAIN ls : ls[id].productVariantId = variantId /\ ls[id].quantity > 0}

\* the orders findMany may return: rows equal on both sort keys come in any order
FindManyOrders(ls, variantId) ==
    LET S == AvailableLots(ls, variantId)
    IN {s \in [1..Cardinality(S) -> S] :
          /\ \A i, j \in 1..Cardinality(S) : i # j => s[i] # s[j]
          /\ \A i, j \in 1..Cardinality(S) : i < j => ~OrderedBefore(ls[s[j]], ls[s[i]])}

\* the inner loop of allocateStock over the ordered lots
RECURSIVE AllocateLines(_, _, _)
AllocateLines(ls, stockLots, remaining) ==
    IF stockLots = <<>> \/ remaining <= 0
      THEN <<>>
      ELSE LET lot == ls[Head(stockLots)]
               allocateQty == Min(remaining, lot.quantity)
           IN <<[stockItemId |-> Head(stockLots), qtyAllocated |-> allocateQty,
                 qtyPrevious |-> lot.quantity, unitCost |-> lot.unitPrice]>>
              \o AllocateLines(ls, Tail(stockLots), remaining - allocateQty)

RECURSIVE SumAllocated(_)
SumAllocated(lines) ==
    IF lines = <<>> THEN 0 ELSE Head(lines).qtyAllocated + SumAllocated(Tail(lines))

\* the requested quantity reported instead of what is left of it
Remaining_Requested(item, lines) == item.quantity

\* remaining after the loop
Remaining(item, lines) == item.quantity - SumAllocated(lines)

\* the row stores the change with the sign of the movement
SaleLog_Signed(line, saleId, companyId) ==
    [stockItemId |-> line.stockItemId, type |-> "SALE", quantityChange |-> 0 - line.qtyAllocated,
     previousQty |-> line.qtyPrevious, newQty |-> line.qtyPrevious - line.qtyAllocated,
     isManual |-> FALSE, isReverted |-> FALSE,
     sourceId |-> <<saleId>>, companyId |-> companyId,
     userId |-> UserOf(companyId), revertedById |-> <<>>]

\* processInventoryMovements: the log row of one allocation line
SaleLog(line, saleId, companyId) ==
    [stockItemId |-> line.stockItemId, type |-> "SALE", quantityChange |-> line.qtyAllocated,
     previousQty |-> line.qtyPrevious, newQty |-> line.qtyPrevious - line.qtyAllocated,
     isManual |-> FALSE, isReverted |-> FALSE,
     sourceId |-> <<saleId>>, companyId |-> companyId,
     userId |-> UserOf(companyId), revertedById |-> <<>>]

\* all lines of all allocation results, in the order of the two nested loops
RECURSIVE AllLines(_)
AllLines(allocations) ==
    IF allocations = <<>> THEN <<>>
    ELSE Head(allocations).lines \o AllLines(Tail(allocations))

\* quantity: { decrement: qtyAllocated }, one update per line
RECURSIVE ApplyDecrements(_, _)
ApplyDecrements(ls, decrements) ==
    IF decrements = <<>> THEN ls
    ELSE LET d == Head(decrements)
         IN ApplyDecrements([ls EXCEPT ![d.stockItemId].quantity = @ - d.qtyAllocated],
                            Tail(decrements))

\* an insert made on the prisma client instead of on tx survives the rollback
AfterRollback_Leak(table, txRows) == table \o txRows

\* what a table holds after the transaction callback threw: none of its rows
AfterRollback(table, txRows) == table

\* the rows of the transaction written twice
AfterCommit_Twice(table, txRows) == table \o txRows \o txRows

\* what a table holds after the transaction committed
AfterCommit(table, txRows) == table \o txRows

\* $transaction opens; validateSaleItems
SaleValidate(dtos, companies) ==
    \E dto \in dtos, c \in companies :
        /\ Arrives
        /\ LET missingIds == MissingIds(dto.items, c)
           IN IF Len(missingIds) > 0
                THEN Rejects([code |-> "BadRequest: product variants do not exist",
                              variants |-> missingIds, missing |-> 0])
                ELSE Starts([pc |-> "cs_allocate",
                             local |-> [NoLocal EXCEPT !.i = 1],
                             req |-> [NoReq EXCEPT !.op = "createSale", !.companyId = c,
                                                   !.items = dto.items,
                                                   !.clientId = dto.clientId]])
        /\ UNCHANGED <<lots, logs, sales, saleItems, nextSaleId>>

\* allocateStock: one turn of the outer loop, the findMany of one item
SaleAllocate ==
    \E t \in BagToSet(tasks) :
        /\ t.pc = "cs_allocate"
        /\ LET item == t.req.items[t.local.i]
           IN \E stockLots \in FindManyOrders(lots, item.productVariantId) :
                LET lines == AllocateLines(lots, stockLots, item.quantity)
                    remaining == Remaining(item, lines)
                IN IF Len(stockLots) = 0
                     THEN Finish(t, [code |-> "BadRequest: no stock available",
                                     variants |-> <<item.productVariantId>>, missing |-> 0])
                     ELSE IF remaining > 0
                       THEN Finish(t, [code |-> "BadRequest: insufficient stock",
                                       variants |-> <<item.productVariantId>>,
                                       missing |-> remaining])
                       ELSE Continues(t, [t EXCEPT
                                  !.local.allocations = Append(@, [productVariantId |-> item.productVariantId,
                                                                   lines |-> lines]),
                                  !.local.i = @ + 1,
                                  !.pc = IF t.local.i = Len(t.req.items) THEN "cs_createSale"
                                                                         ELSE "cs_allocate"])
        /\ UNCHANGED <<lots, logs, sales, saleItems, nextSaleId, nOps>>

\* createSaleItems(tx, sale.id, dto.items): one row per requested item
CreateSaleItems(saleId, items) ==
    [k \in 1..Len(items) |-> [saleId |-> saleId,
                              productVariantId |-> items[k].productVariantId,
                              quantity |-> items[k].quantity,
                              unitPrice |-> items[k].unitPrice]]

\* tx.sale.create, then createSaleItems: the inserts of the sale and its items
SaleCreate ==
    \E t \in BagToSet(tasks) :
        /\ t.pc = "cs_createSale"
        /\ nextSaleId' = nextSaleId + 1
        /\ Continues(t, [t EXCEPT
              !.local.saleId = nextSaleId,
              !.local.txSale = <<[id |-> nextSaleId,
                                  companyId |-> t.req.companyId,
                                  userId |-> UserOf(t.req.companyId),
                                  clientId |-> t.req.clientId]>>,
              !.local.txItems = CreateSaleItems(nextSaleId, t.req.items),
              !.pc = "cs_movements"])
        /\ UNCHANGED <<lots, logs, sales, saleItems, nOps>>

\* processInventoryMovements: per line a log row and a decrement of the lot
SaleMovements ==
    \E t \in BagToSet(tasks) :
        /\ t.pc = "cs_movements"
        /\ LET lines == AllLines(t.local.allocations)
           IN /\ \A k \in 1..Len(lines) : ~LockedByOther(t, lines[k].stockItemId)
              /\ Continues(t, [t EXCEPT
                    !.local.txLogs = [k \in 1..Len(lines) |->
                                        SaleLog(lines[k], t.local.saleId, t.req.companyId)],
                    !.local.txDecrements = [k \in 1..Len(lines) |->
                                        [stockItemId |-> lines[k].stockItemId,
                                         qtyAllocated |-> lines[k].qtyAllocated]],
                    !.pc = "cs_commit"])
        /\ UNCHANGED <<lots, logs, sales, saleItems, nextSaleId, nOps>>

\* the callback returned: the transaction commits
SaleCommit ==
    \E t \in BagToSet(tasks) :
        /\ t.pc = "cs_commit"
        /\ lots' = ApplyDecrements(lots, t.local.txDecrements)
        /\ logs' = AfterCommit(logs, t.local.txLogs)
        /\ sales' = AfterCommit(sales, t.local.txSale)
        /\ saleItems' = AfterCommit(saleItems, t.local.txItems)
        /\ Finish(t, Ok)
        /\ UNCHANGED <<nextSaleId, nOps>>

\* the transaction exceeds maxWait / timeout, or a statement fails: it is
\* rolled back and the error reaches the caller
SaleAbort ==
    \E t \in BagToSet(tasks) :
        /\ t.pc \in {"cs_allocate", "cs_createSale", "cs_movements", "cs_commit"}
        /\ lots' = lots
        /\ logs' = AfterRollback(logs, t.local.txLogs)
        /\ sales' = AfterRollback(sales, t.local.txSale)
        /\ saleItems' = AfterRollback(saleItems, t.local.txItems)
        /\ Finish(t, Threw("Error: transaction aborted"))
        /\ UNCHANGED <<nextSaleId, nOps>>

\* ------------------------------------------------------------ the ledger
\* the seeded store: two lots of variant v1 (company A), one of v2 (company B)
SeedLots ==
    [id \in 1..3 |->
        [productVariantId |-> IF id = 3 THEN "v2" ELSE "v1",
         quantity |-> MaxQty,
         unitPrice |-> 5,
         expirationDate |-> IF id = 3 THEN <<>> ELSE <<id>>,
         createdAt |-> id]]

InitTasks ==
    /\ tasks = EmptyBag
    /\ response = NoResult
    /\ nOps = 0

Init ==
    /\ lots = SeedLots
    /\ logs = <<>>
    /\ sales = <<>>
    /\ saleItems = <<>>
    /\ nextSaleId = 1
    /\ InitTasks

\* the requests of the ledger specification
Dto(id, d) == [stockItemId |-> id, quantityChange |-> d, type |-> "ADJUSTMENT", isManual |-> <<>>]

ManualDtos == {Dto(1, -1), Dto(1, 1), Dto(3, 1)}

\* a requested item; the price is the caller's, not the lot's
Item(v, q) == [productVariantId |-> v, quantity |-> q, unitPrice |-> 7]

SaleDtos ==
    {[items |-> its, clientId |-> <<>>] : its \in {<<Item("v1", 1)>>,
                                <<Item("v1", MaxQty + 1)>>,
                                <<Item("v1", 1), Item("v1", MaxQty)>>,
                                <<Item("v2", 1)>>}}

Next ==
    \/ CreateManualFind(ManualDtos, {"A"})
    \/ CreateManualTx
    \/ RevertFindLog(1..(Len(logs) + 1), {"A"})
    \/ RevertFindLot
    \/ RevertTx
    \/ SaleValidate(SaleDtos, {"A"})
    \/ SaleAllocate
    \/ SaleCreate
    \/ SaleMovements
    \/ SaleCommit
    \/ SaleAbort

Spec == Init /\ [][Next]_vars

\* ------------------------------------------------------------ two tenants
\* both companies send requests, one after another, for their own rows and
\* for the other's: any lot, any log row, either variant and either client
TenantManualDtos == {Dto(1, 1), Dto(3, 1)}

TenantSaleDtos ==
    {[items |-> its, clientId |-> cl] :
        its \in {<<Item("v1", 1)>>, <<Item("v2", 1)>>},
        cl \in {<<>>, <<"c1">>, <<"c2">>}}

NextTenant ==
    \/ tasks = EmptyBag /\ CreateManualFind(TenantManualDtos, Companies)
    \/ CreateManualTx
    \/ tasks = EmptyBag /\ RevertFindLog(1..Len(logs), Companies)
    \/ RevertFindLot
    \/ RevertTx
    \/ tasks = EmptyBag /\ SaleValidate(TenantSaleDtos, Companies)
    \/ SaleAllocate
    \/ SaleCreate
    \/ SaleMovements
    \/ SaleCommit
    \/ SaleAbort

SpecTenant == Init /\ [][NextTenant]_vars

\* ------------------------------------------------------- the ledger claims
\* the step takes task t out of where it stood
Moves(t) == CopiesIn(t, tasks') < CopiesIn(t, tasks)

\* the step in which task t's handler ends
Ends(t) == Moves(t) /\ BagCardinality(tasks') < BagCardinality(tasks)

\* C1: in every reachable state every stock lot has quantity >= 0
C1_QuantityNeverNegative ==
    \A id \in DOMAIN lots : lots[id].quantity >= 0

\* the log rows of a lot that sales wrote
IsSaleLog(e) == e.type = "SALE" /\ ~e.isManual

\* only sales have written to the lot of log row i
OnlySalesTouched(id) ==
    \A k \in 1..Len(logs) :
        logs[k].stockItemId = id => IsSaleLog(logs[k]) /\ ~logs[k].isReverted

\* C2: two sales that allocated from the same reading of a lot, together more
\* than the lot held, are never both committed: the second decrement is refused
C2_NoDoubleAllocation ==
    \A i, j \in 1..Len(logs) :
        ( /\ i < j
          /\ logs[i].stockItemId = logs[j].stockItemId
          /\ OnlySalesTouched(logs[i].stockItemId)
          /\ logs[i].sourceId # logs[j].sourceId
          /\ logs[i].previousQty = logs[j].previousQty )
        => logs[i].quantityChange + logs[j].quantityChange <= logs[i].previousQty

\* the effect of a log row on its lot: a SALE row is a removal
Effect(e) == IF e.type = "SALE" THEN 0 - e.quantityChange ELSE e.quantityChange

RECURSIVE NetEffect(_, _)
NetEffect(lg, id) ==
    IF lg = <<>> THEN 0
    ELSE (IF Head(lg).stockItemId = id /\ ~Head(lg).isReverted THEN Effect(Head(lg)) ELSE 0)
         + NetEffect(Tail(lg), id)

\* C3: a lot's quantity is its initial quantity plus the effects of its log
\* rows that are not reverted
C3_LedgerMatchesLog ==
    \A id \in DOMAIN lots :
        lots[id].quantity = SeedLots[id].quantity + NetEffect(logs, id)

\* log row i is the only row of its lot: nothing else has touched the lot
OnlyRowOfLot(i) ==
    \A k \in 1..Len(logs) : logs[k].stockItemId = logs[i].stockItemId => k = i

\* C4: a revert of a row that is the only change of its lot puts the lot back
\* to the row's previousQty
C4_RevertRestoresPrevious ==
    [][\A t \in BagToSet(tasks) :
         (t.pc = "rv_tx" /\ Ends(t) /\ response'.code = "ok" /\ OnlyRowOfLot(t.req.logId))
         => lots'[logs[t.req.logId].stockItemId].quantity = logs[t.req.logId].previousQty]_vars

\* C5: a revert called on a row that is already reverted throws 'already
\* reverted' and changes no lot and no log row
C5_RevertOfRevertedRefused ==
    [][\A id \in 1..Len(logs) :
         (logs[id].isReverted /\ RevertFindLog({id}, {logs[id].companyId}))
         => /\ response'.code = "BadRequest: log already reverted"
            /\ UNCHANGED <<tasks, lots, logs>>]_vars

\* a row is reverted and the second request for it was refused
C5_Witness ==
    /\ response.code = "BadRequest: log already reverted"
    /\ \E id \in 1..Len(logs) : logs[id].isReverted

\* C6: a revert succeeds only on a row no other request has reverted: of two
\* concurrent reverts of one row at most one succeeds
C6_RevertAtMostOnce ==
    [][\A t \in BagToSet(tasks) :
         (t.pc = "rv_tx" /\ Ends(t) /\ response'.code = "ok")
         => ~logs[t.req.logId].isReverted]_vars

\* C7: every step of a createSale but its commit, and so every createSale
\* that fails, leaves the sale, sale item, log and lot tables as they were
C7_FailedSaleLeavesNothing ==
    [][( \/ \E dto \in SaleDtos, c \in Companies : SaleValidate({dto}, {c})
         \/ \E t \in BagToSet(tasks) :
              /\ t.req.op = "createSale"
              /\ Moves(t)
              /\ ~(Ends(t) /\ response'.code = "ok") )
       => UNCHANGED <<lots, logs, sales, saleItems>>]_vars

\* a sale was given an id, so its row was inserted, the transaction then
\* failed, and no sale is stored
C7_Witness ==
    /\ response.code = "Error: transaction aborted"
    /\ nextSaleId > 1
    /\ sales = <<>>

\* C8: every log row has previousQty + quantityChange = newQty
C8_LogRowArithmetic ==
    \A i \in 1..Len(logs) :
        logs[i].previousQty + logs[i].quantityChange = logs[i].newQty

\* the log rows a step adds for lot id
NewRowsOf(id) ==
    {k \in (Len(logs) + 1)..Len(logs') : logs'[k].stockItemId = id}

\* C9: a step that changes a lot's quantity adds exactly one log row for that
\* lot, with the quantity before as previousQty and the quantity after as newQty
C9_OneLogRowPerChange ==
    [][\A id \in DOMAIN lots :
         (id \in DOMAIN lots' /\ lots'[id].quantity # lots[id].quantity)
         => /\ Cardinality(NewRowsOf(id)) = 1
            /\ \A k \in NewRowsOf(id) :
                 /\ logs'[k].previousQty = lots[id].quantity
                 /\ logs'[k].newQty = lots'[id].quantity]_vars

\* ---------------------------------------------------------- the allocator
\* one createSale against every small store: three lots of variant v1 with
\* any quantities, expiration dates (or none) and creation times
AllocSnapshots ==
    {[id \in 1..3 |-> [productVariantId |-> "v1", quantity |-> q[id], unitPrice |-> 5,
                       expirationDate |-> e[id],
                       createdAt |-> IF id = 1 THEN 1 ELSE c[id]]] :
        q \in [1..3 -> 0..MaxQty], e \in [1..3 -> {<<>>, <<1>>, <<2>>}], c \in [1..3 -> {1, 2}]}

AllocDtos ==
    {[items |-> its, clientId |-> <<>>] : its \in {<<Item("v1", n)>> : n \in (0 - 1)..(3 * MaxQty + 1)}
                               \cup {<<Item("v1", 1), Item("v1", MaxQty)>>,
                                     <<Item("v9", 1), Item("v1", 1), Item("v2", 1)>>}}

InitAlloc ==
    /\ lots \in AllocSnapshots
    /\ logs = <<>>
    /\ sales = <<>>
    /\ saleItems = <<>>
    /\ nextSaleId = 1
    /\ InitTasks

NextAlloc ==
    \/ nOps = 0 /\ SaleValidate(AllocDtos, {"A"})
    \/ SaleAllocate
    \/ SaleCreate
    \/ SaleMovements
    \/ SaleCommit
    \/ SaleAbort

SpecAlloc == InitAlloc /\ [][NextAlloc]_vars

\* the order of the claim: expiration date ascending, no date last, then
\* creation time ascending
ExpirationRank(lot) ==
    IF lot.expirationDate = <<>> THEN 1 ELSE 0

ComesBefore(a, b) ==
    \/ ExpirationRank(a) < ExpirationRank(b)
    \/ /\ ExpirationRank(a) = 0
       /\ ExpirationRank(b) = 0
       /\ a.expirationDate[1] < b.expirationDate[1]
    \/ /\ a.expirationDate = b.expirationDate
       /\ a.createdAt < b.createdAt

RECURSIVE TakenBefore(_, _)
TakenBefore(lines, n) ==
    IF n <= 1 THEN 0 ELSE lines[n - 1].qtyAllocated + TakenBefore(lines, n - 1)

\* C10: the lines of an item take min(remaining, quantity) from lots that have
\* stock, and a lot is taken from only when every lot before it in the order
\* (expiration ascending, no date last, then creation time) is taken whole
C10_FifoAllocation ==
    \A t \in BagToSet(tasks) : \A k \in 1..Len(t.local.allocations) :
        LET item == t.req.items[k]
            lines == t.local.allocations[k].lines
        IN \A n \in 1..Len(lines) :
             LET id == lines[n].stockItemId
             IN /\ lots[id].productVariantId = item.productVariantId
                /\ lots[id].quantity > 0
                /\ lines[n].qtyPrevious = lots[id].quantity
                /\ lines[n].qtyAllocated
                     = Min(item.quantity - TakenBefore(lines, n), lots[id].quantity)
                /\ lines[n].qtyAllocated > 0
                /\ \A other \in DOMAIN lots :
                     ( /\ lots[other].productVariantId = item.productVariantId
                       /\ lots[other].quantity > 0
                       /\ ComesBefore(lots[other], lots[id]) )
                     => \E m \in 1..(n - 1) :
                          /\ lines[m].stockItemId = other
                          /\ lines[m].qtyAllocated = lots[other].quantity

\* an item took from three lots: two that share the expiration date, the one
\* created first first although its id is higher, then the lot without a date
C10_Witness ==
    \E t \in BagToSet(tasks) : \E k \in 1..Len(t.local.allocations) :
        LET lines == t.local.allocations[k].lines
        IN /\ Len(lines) = 3
           /\ lots[lines[3].stockItemId].expirationDate = <<>>
           /\ lots[lines[1].stockItemId].expirationDate # <<>>
           /\ lots[lines[1].stockItemId].expirationDate = lots[lines[2].stockItemId].expirationDate
           /\ lots[lines[1].stockItemId].createdAt < lots[lines[2].stockItemId].createdAt
           /\ lines[1].stockItemId > lines[2].stockItemId

\* C11: a createSale that commits has, for every requested item, allocation
\* lines whose qtyAllocated add up to the item's requested quantity
C11_AllocatedEqualsRequested ==
    [][\A t \in BagToSet(tasks) :
         (t.pc = "cs_commit" /\ Ends(t) /\ response'.code = "ok")
         => \A k \in 1..Len(t.req.items) :
              SumAllocated(t.local.allocations[k].lines) = t.req.items[k].quantity]_vars

\* the lots of a variant that have stock, stated on the table
LotsWithStock(variantId) ==
    {id \in DOMAIN lots : lots[id].productVariantId = variantId /\ lots[id].quantity >= 1}

\* the units of a variant in lots that have stock
RECURSIVE SumQuantity(_, _)
SumQuantity(ls, ids) ==
    IF ids = {} THEN 0
    ELSE LET id == CHOOSE x \in ids : TRUE
         IN ls[id].quantity + SumQuantity(ls, ids \ {id})

TotalAvailable(variantId) == SumQuantity(lots, LotsWithStock(variantId))

\* the step is the transaction's rollback on a timeout, not a step of the callback
IsAbort == response'.code = "Error: transaction aborted"

\* C12: the allocation of an item whose variant has stock, but less than the
\* item asks, fails with the insufficient-stock error, which reports
\* missing = requested - total available, and leaves every lot as it was
C12_InsufficientStockReported ==
    [][\A t \in BagToSet(tasks) :
         LET item == t.req.items[t.local.i]
             total == TotalAvailable(item.productVariantId)
         IN ( /\ t.pc = "cs_allocate"
              /\ Moves(t)
              /\ ~IsAbort
              /\ LotsWithStock(item.productVariantId) # {}
              /\ total < item.quantity )
            => /\ Ends(t)
               /\ response'.code = "BadRequest: insufficient stock"
               /\ response'.variants = <<item.productVariantId>>
               /\ response'.missing = item.quantity - total
               /\ UNCHANGED <<lots, logs, sales, saleItems>>]_vars

\* a sale was refused for 2 missing units while its variant had stock
C12_Witness ==
    /\ response.code = "BadRequest: insufficient stock"
    /\ response.missing = 2
    /\ TotalAvailable("v1") > 1
    /\ sales = <<>>

\* C13: the allocation of an item whose variant has no lot with quantity > 0
\* fails with the out-of-stock error naming the variant, and nothing is stored
C13_OutOfStockReported ==
    [][\A t \in BagToSet(tasks) :
         LET item == t.req.items[t.local.i]
         IN ( /\ t.pc = "cs_allocate"
              /\ Moves(t)
              /\ ~IsAbort
              /\ LotsWithStock(item.productVariantId) = {} )
            => /\ Ends(t)
               /\ response'.code = "BadRequest: no stock available"
               /\ response'.variants = <<item.productVariantId>>
               /\ UNCHANGED <<lots, logs, sales, saleItems>>]_vars

\* a sale was refused as out of stock while lots of its variant exist, all
\* of them empty
C13_Witness ==
    /\ response.code = "BadRequest: no stock available"
    /\ response.variants = <<"v1">>
    /\ \E id \in DOMAIN lots : lots[id].productVariantId = "v1"
    /\ \A id \in DOMAIN lots : lots[id].quantity = 0
    /\ sales = <<>> /\ saleItems = <<>> /\ logs = <<>>

\* the items of a request whose variant is unknown or of another company
ForeignItems(items, companyId) ==
    {k \in 1..Len(items) : \/ items[k].productVariantId \notin VariantIds
                           \/ VariantCompany[items[k].productVariantId] # companyId}

\* C14: a createSale with an item whose variant does not exist or is not of
\* the caller's company fails with BadRequest, the error lists the id of every
\* such item and no other, and nothing was allocated or written
C14_UnknownVariantsListed ==
    [][\A dto \in AllocDtos \cup SaleDtos, c \in Companies :
         (SaleValidate({dto}, {c}) /\ ForeignItems(dto.items, c) # {})
         => /\ response'.code = "BadRequest: product variants do not exist"
            /\ \A k \in ForeignItems(dto.items, c) :
                 \E j \in 1..Len(response'.variants) :
                    response'.variants[j] = dto.items[k].productVariantId
            /\ \A j \in 1..Len(response'.variants) :
                 \E k \in ForeignItems(dto.items, c) :
                    response'.variants[j] = dto.items[k].productVariantId
            /\ UNCHANGED <<tasks, lots, logs, sales, saleItems, nextSaleId>>]_vars

\* a request with an unknown id, an own variant and a variant of another
\* company was refused with both foreign ids listed
C14_Witness ==
    /\ response.code = "BadRequest: product variants do not exist"
    /\ response.variants = <<"v9", "v2">>
    /\ tasks = EmptyBag
    /\ sales = <<>> /\ saleItems = <<>> /\ logs = <<>>

\* ------------------------------------------------------ the tenant claims
\* C15: createManual on a lot of another company and revert of a log row of
\* another company fail with NotFound and change no lot and no log row
C15_OtherTenantNotFound ==
    [][/\ \A dto \in TenantManualDtos, c \in Companies :
            ( /\ CreateManualFind({dto}, {c})
              /\ dto.stockItemId \in DOMAIN lots
              /\ VariantCompany[lots[dto.stockItemId].productVariantId] # c )
            => /\ response'.code = "NotFound: stock item not found for this company"
               /\ UNCHANGED <<tasks, lots, logs>>
       /\ \A id \in 1..Len(logs), c \in Companies :
            (RevertFindLog({id}, {c}) /\ logs[id].companyId # c)
            => /\ response'.code = "NotFound: inventory log not found"
               /\ UNCHANGED <<tasks, lots, logs>>]_vars

\* the only log row is of one company, not reverted, and a revert of it was
\* answered 'not found': the request came from the other company
C15_Witness ==
    /\ response.code = "NotFound: inventory log not found"
    /\ Len(logs) = 1
    /\ ~logs[1].isReverted
    /\ lots[logs[1].stockItemId].quantity = logs[1].newQty

\* the items of a request whose variant exists and is of another company
OtherTenantItems(items, companyId) ==
    {k \in 1..Len(items) : /\ items[k].productVariantId \in VariantIds
                           /\ VariantCompany[items[k].productVariantId] # companyId}

NotFoundCodes ==
    {"NotFound: stock item not found for this company", "NotFound: inventory log not found"}

\* no sale in flight holds an allocation line or a decrement of a lot that
\* is not of its company
NoForeignAllocation ==
    \A t \in BagToSet(tasks) :
        /\ \A k \in 1..Len(t.local.allocations) :
             \A n \in 1..Len(t.local.allocations[k].lines) :
                VariantCompany[lots[t.local.allocations[k].lines[n].stockItemId].productVariantId]
                  = t.req.companyId
        /\ \A n \in 1..Len(t.local.txDecrements) :
             VariantCompany[lots[t.local.txDecrements[n].stockItemId].productVariantId]
               = t.req.companyId

\* C16 as stated: a createSale with an item whose variant is of another
\* company fails with NotFound, and no lot of the other company is read into
\* an allocation or decremented
C16_ForeignVariantNotFound ==
    [][\A dto \in TenantSaleDtos, c \in Companies :
         (SaleValidate({dto}, {c}) /\ OtherTenantItems(dto.items, c) # {})
         => /\ response'.code \in NotFoundCodes
            /\ UNCHANGED <<tasks, lots, logs, sales, saleItems>>
            /\ NoForeignAllocation']_vars

\* C16 amended: a createSale with an item whose variant is of another company
\* fails with BadRequest, the error naming the variant, and no lot of the
\* other company is read into an allocation or decremented
C16_ForeignVariantBadRequest ==
    [][/\ NoForeignAllocation'
       /\ \A dto \in TenantSaleDtos, c \in Companies :
            (SaleValidate({dto}, {c}) /\ OtherTenantItems(dto.items, c) # {})
            => /\ response'.code = "BadRequest: product variants do not exist"
               /\ \A k \in OtherTenantItems(dto.items, c) :
                    \E j \in 1..Len(response'.variants) :
                       response'.variants[j] = dto.items[k].productVariantId
               /\ UNCHANGED <<tasks, lots, logs, sales, saleItems>>]_vars

\* a sale that asked for the variant of company B was refused: the caller
\* was company A, the only other company
C16_Witness ==
    /\ response.code = "BadRequest: product variants do not exist"
    /\ response.variants = <<"v2">>
    /\ tasks = EmptyBag
    /\ lots[3].quantity = SeedLots[3].quantity

\* C17: every stored sale refers only to rows of its own company: its client
\* when it has one, the variant of each of its items, and the lot of each log
\* row written for it
C17_SaleWithinTenant ==
    \A i \in 1..Len(sales) :
        /\ sales[i].clientId # <<>> => ClientCompany[sales[i].clientId[1]] = sales[i].companyId
        /\ \A k \in 1..Len(saleItems) :
             saleItems[k].saleId = sales[i].id
             => VariantCompany[saleItems[k].productVariantId] = sales[i].companyId
        /\ \A k \in 1..Len(logs) :
             logs[k].sourceId = <<sales[i].id>>
             => /\ logs[k].companyId = sales[i].companyId
                /\ VariantCompany[lots[logs[k].stockItemId].productVariantId] = sales[i].companyId

\* ------------------------------------------------- the refusal claims
\* C18: a createManual whose change would take the lot below 0 fails with
\* BadRequest, the lot keeps its quantity and no log row is created
C18_NegativeManualRefused ==
    [][\A dto \in ManualDtos, c \in Companies :
         ( /\ CreateManualFind({dto}, {c})
           /\ dto.stockItemId \in DOMAIN lots
           /\ VariantCompany[lots[dto.stockItemId].productVariantId] = c
           /\ lots[dto.stockItemId].quantity + dto.quantityChange < 0 )
         => /\ response'.code = "BadRequest: resulting quantity cannot be negative"
            /\ UNCHANGED <<tasks, lots, logs>>]_vars

\* lot 1 is empty and a createManual was refused: the removal of one unit
C18_Witness ==
    /\ response.code = "BadRequest: resulting quantity cannot be negative"
    /\ lots[1].quantity = 0
    /\ tasks = EmptyBag

\* C19: a revert that would take the lot below 0 fails with BadRequest, the
\* lot keeps its quantity and the log row stays as it was, not reverted
C19_NegativeRevertRefused ==
    [][\A t \in BagToSet(tasks) :
         LET log == logs[t.req.logId]
         IN ( /\ t.pc = "rv_findLot"
              /\ Moves(t)
              /\ log.stockItemId \in DOMAIN lots
              /\ VariantCompany[lots[log.stockItemId].productVariantId] = t.req.companyId
              /\ lots[log.stockItemId].quantity - log.quantityChange < 0 )
            => /\ Ends(t)
               /\ response'.code = "BadRequest: reversion would result in negative quantity"
               /\ UNCHANGED <<lots, logs>>]_vars

\* a revert was refused and the row it was for, an addition to lot 1 that a
\* sale has since taken, is still not reverted
C19_Witness ==
    /\ response.code = "BadRequest: reversion would result in negative quantity"
    /\ \E i \in 1..Len(logs) :
         /\ logs[i].type = "ADJUSTMENT"
         /\ ~logs[i].isReverted
         /\ lots[logs[i].stockItemId].quantity - logs[i].quantityChange < 0
    /\ \A id \in DOMAIN lots : lots[id].quantity >= 0

\* C20: a log row that is reverted stays reverted and unchanged in every
\* later step, and no later step of a revert of that row writes its lot
C20_RevertedIsTerminal ==
    [][\A i \in 1..Len(logs) :
         logs[i].isReverted
         => /\ logs'[i] = logs[i]
            /\ \A t \in BagToSet(tasks) :
                 (t.req.op = "revert" /\ t.req.logId = i /\ Moves(t))
                 => UNCHANGED lots]_vars

\* ------------------------------------------------ the stock item service
\* where: { id: dto.productVariantId, product: { companyId } }
VariantOfCompany(v, c) == v \in VariantIds /\ VariantCompany[v] = c

\* the lot ids some row or some running request still holds; a uuid is new,
\* and an id nothing holds any more cannot be told from a new one
HeldLotIds ==
    DOMAIN lots
      \cup {logs[i].stockItemId : i \in 1..Len(logs)}
      \cup {t.req.stockItemId : t \in BagToSet(tasks)}
      \cup {t.local.stockItemId : t \in BagToSet(tasks)}

NewLotId == CHOOSE id \in 1..(Cardinality(HeldLotIds) + 1) : id \notin HeldLotIds

\* createdAt DEFAULT CURRENT_TIMESTAMP: later than every row of the table
Now ==
    IF DOMAIN lots = {} THEN 1
    ELSE 1 + (CHOOSE m \in {lots[id].createdAt : id \in DOMAIN lots} :
                 \A id \in DOMAIN lots : lots[id].createdAt <= m)

\* CreateStockItemDto: productVariantId @IsUUID, quantity @IsInt, the
\* optional expirationDate left out
CreateStockItemDto(v, q) == [productVariantId |-> <<v>>, quantity |-> <<q>>]

\* UpdateStockItemDto: every field of CreateStockItemDto, each optional
UpdateStockItemDto(v, q) == [productVariantId |-> v, quantity |-> q]

\* stockItem.create({ data: dto })
NewLot(dto) ==
    [productVariantId |-> dto.productVariantId[1],
     quantity |-> dto.quantity[1],
     unitPrice |-> 5,
     expirationDate |-> <<>>,
     createdAt |-> Now]

\* stockItem.update({ where: { id }, data: dto }): the fields the dto carries
UpdatedLot(lot, dto) ==
    [lot EXCEPT !.productVariantId = IF dto.productVariantId = <<>> THEN @
                                     ELSE dto.productVariantId[1],
                !.quantity = IF dto.quantity = <<>> THEN @
                             ELSE dto.quantity[1]]

\* InventoryLog_stockItemId_fkey ON DELETE RESTRICT
RestrictsDelete(id) == \E i \in 1..Len(logs) : logs[i].stockItemId = id

\* create, lines 124-131: the variant must be one of the caller's company
StockItemCreate(dtos, companies) ==
    \E dto \in dtos, c \in companies :
        /\ Arrives
        /\ IF ~VariantOfCompany(dto.productVariantId[1], c)
             THEN Rejects(Threw("NotFound: product variant not found"))
             ELSE Starts([pc |-> "si_create",
                          req |-> [NoReq EXCEPT !.op = "stockItemCreate", !.companyId = c,
                                                !.stock = <<dto>>],
                          local |-> NoLocal])
        /\ UNCHANGED <<lots, logs, sales, saleItems, nextSaleId>>

\* create, lines 133-136: the insert
StockItemInsert ==
    \E t \in BagToSet(tasks) :
        /\ t.pc = "si_create"
        /\ lots' = [id \in DOMAIN lots \cup {NewLotId} |->
                       IF id = NewLotId THEN NewLot(t.req.stock[1]) ELSE lots[id]]
        /\ Finish(t, Ok)
        /\ UNCHANGED <<logs, sales, saleItems, nextSaleId, nOps>>

\* update, lines 159-165: findOne, then the variant check when the dto has one
StockItemUpdate(ids, dtos, companies) ==
    \E id \in ids, dto \in dtos, c \in companies :
        /\ Arrives
        /\ IF ~LotOfCompany(lots, id, c)
             THEN Rejects(Threw("NotFound: stock item not found"))
             ELSE IF dto.productVariantId # <<>> /\ ~VariantOfCompany(dto.productVariantId[1], c)
                    THEN Rejects(Threw("NotFound: product variant not found"))
                    ELSE Starts([pc |-> "si_update",
                                 req |-> [NoReq EXCEPT !.op = "stockItemUpdate", !.companyId = c,
                                                       !.stockItemId = id, !.stock = <<dto>>],
                                 local |-> NoLocal])
        /\ UNCHANGED <<lots, logs, sales, saleItems, nextSaleId>>

\* update, lines 166-170: the write
StockItemWrite ==
    \E t \in BagToSet(tasks) :
        /\ t.pc = "si_update"
        /\ ~LockedByOther(t, t.req.stockItemId)
        /\ IF t.req.stockItemId \in DOMAIN lots
             THEN /\ lots' = [lots EXCEPT ![t.req.stockItemId] = UpdatedLot(@, t.req.stock[1])]
                  /\ Finish(t, Ok)
             ELSE /\ UNCHANGED lots
                  /\ Finish(t, Threw("Error: record to update not found"))
        /\ UNCHANGED <<logs, sales, saleItems, nextSaleId, nOps>>

\* remove, line 174: findOne
StockItemRemove(ids, companies) ==
    \E id \in ids, c \in companies :
        /\ Arrives
        /\ IF ~LotOfCompany(lots, id, c)
             THEN Rejects(Threw("NotFound: stock item not found"))
             ELSE Starts([pc |-> "si_delete",
                          req |-> [NoReq EXCEPT !.op = "stockItemRemove", !.companyId = c,
                                                !.stockItemId = id],
                          local |-> NoLocal])
        /\ UNCHANGED <<lots, logs, sales, saleItems, nextSaleId>>

\* remove, line 175: the delete, refused while a log row refers to the lot
StockItemDelete ==
    \E t \in BagToSet(tasks) :
        /\ t.pc = "si_delete"
        /\ ~LockedByOther(t, t.req.stockItemId)
        /\ IF t.req.stockItemId \notin DOMAIN lots
             THEN /\ UNCHANGED lots
                  /\ Finish(t, Threw("Error: record to delete does not exist"))
             ELSE IF RestrictsDelete(t.req.stockItemId)
                    THEN /\ UNCHANGED lots
                         /\ Finish(t, Threw("Error: foreign key constraint violated"))
                    ELSE /\ lots' = [id \in DOMAIN lots \ {t.req.stockItemId} |-> lots[id]]
                         /\ Finish(t, Ok)
        /\ UNCHANGED <<logs, sales, saleItems, nextSaleId, nOps>>

\* ---------------------------------------------------- the stock item spec
\* company A's callers create, update and remove lots next to manual
\* adjustments and reversions
StockCreateDtos ==
    {CreateStockItemDto(v, q) : v \in {"v1", "v2"}, q \in {-1, 1}}

StockUpdateDtos ==
    {UpdateStockItemDto(<<>>, <<q>>) : q \in {-1, 0}}
      \cup {UpdateStockItemDto(<<v>>, <<>>) : v \in {"v1", "v2"}}

StockManualDtos == {Dto(1, -1), Dto(2, 1)}

NextStock ==
    \/ StockItemCreate(StockCreateDtos, {"A"})
    \/ StockItemInsert
    \/ StockItemUpdate(1..3, StockUpdateDtos, {"A"})
    \/ StockItemWrite
    \/ StockItemRemove(1..3, {"A"})
    \/ StockItemDelete
    \/ CreateManualFind(StockManualDtos, {"A"})
    \/ CreateManualTx
    \/ RevertFindLog(1..Len(logs), {"A"})
    \/ RevertFindLot
    \/ RevertTx

SpecStock == Init /\ [][NextStock]_vars

\* ------------------------------------------------------ the frame claims
\* the fields of a log row that are set once
Immutable(e) ==
    [stockItemId |-> e.stockItemId, type |-> e.type, quantityChange |-> e.quantityChange,
     previousQty |-> e.previousQty, newQty |-> e.newQty, isManual |-> e.isManual,
     sourceId |-> e.sourceId, companyId |-> e.companyId, userId |-> e.userId]

\* C21: no step deletes a log row or changes a field of it other than
\* isReverted and revertedById
C21_LogRowsAppendOnly ==
    [][/\ Len(logs') >= Len(logs)
       /\ \A i \in 1..Len(logs) : Immutable(logs'[i]) = Immutable(logs[i])]_vars

\* a row written by createManual has been reverted and another row was
\* appended after it
C21_Witness ==
    \E i \in 1..Len(logs) :
        /\ logs[i].isReverted
        /\ logs[i].revertedById # <<>>
        /\ logs[i].type = "ADJUSTMENT"
        /\ logs[i].previousQty + logs[i].quantityChange = logs[i].newQty
        /\ i < Len(logs)

\* the step is the write of a sale, a manual adjustment or a reversion
IsLedgerWrite ==
    \E t \in BagToSet(tasks) : Moves(t) /\ t.pc \in {"cm_tx", "rv_tx", "cs_commit"}

\* C22: a step that changes the quantity of an existing lot is the write of
\* createSale, createManual or revert, never one of the stock-item operations
C22_QuantityOnlyByLedgerWrites ==
    [][\A id \in DOMAIN lots \cap DOMAIN lots' :
          lots'[id].quantity # lots[id].quantity => IsLedgerWrite]_vars

\* C23: a lot that is in the store stays in the store at every later step
C23_LotNeverRemoved ==
    [][\A id \in DOMAIN lots : id \in DOMAIN lots']_vars

\* C24: every step that inserts a lot or writes to one leaves it with a
\* quantity >= 0
C24_StoredQuantityNonNegative ==
    [][\A id \in DOMAIN lots' :
          (id \notin DOMAIN lots \/ lots'[id] # lots[id]) => lots'[id].quantity >= 0]_vars

\* ------------------------------------------------- the operation claims
\* the ways to list the lots of a variant that have stock in the order of the
\* claim; lots equal on expiration date and creation time stand either way
OrdersOfSnapshot(variantId) ==
    LET S == LotsWithStock(variantId)
    IN {s \in [1..Cardinality(S) -> S] :
          /\ \A i, j \in 1..Cardinality(S) : i # j => s[i] # s[j]
          /\ \A i, j \in 1..Cardinality(S) : i < j => ~ComesBefore(lots[s[j]], lots[s[i]])}

\* C25: the lines allocated to an item are the lines every execution of the
\* allocator on the same lots and the same item returns: whichever way the
\* store lists lots equal on both sort keys, the lines are the same
C25_AllocationDeterministic ==
    \A t \in BagToSet(tasks) : \A k \in 1..Len(t.local.allocations) :
        \A s \in OrdersOfSnapshot(t.req.items[k].productVariantId) :
            t.local.allocations[k].lines = AllocateLines(lots, s, t.req.items[k].quantity)

\* C26: the step in which a createManual succeeds on a lot with quantity q
\* and change d sets the lot to q + d and appends one row with previousQty = q,
\* newQty = q + d, quantityChange = d, isReverted = FALSE and isManual TRUE
\* unless the caller gave it; no other lot and no other row changes
C26_ManualEffect ==
    [][\A t \in BagToSet(tasks) :
          (Ends(t) /\ t.pc = "cm_tx" /\ response' = Ok) =>
              LET id == t.req.stockItemId
                  q == lots[id].quantity
                  d == t.req.quantityChange
              IN /\ DOMAIN lots' = DOMAIN lots
                 /\ lots'[id].quantity = q + d
                 /\ \A other \in DOMAIN lots \ {id} : lots'[other] = lots[other]
                 /\ Len(logs') = Len(logs) + 1
                 /\ \A i \in 1..Len(logs) : logs'[i] = logs[i]
                 /\ logs'[Len(logs')].stockItemId = id
                 /\ logs'[Len(logs')].previousQty = q
                 /\ logs'[Len(logs')].newQty = q + d
                 /\ logs'[Len(logs')].quantityChange = d
                 /\ logs'[Len(logs')].isReverted = FALSE
                 /\ logs'[Len(logs')].isManual
                      = (IF t.req.isManual = <<>> THEN TRUE ELSE t.req.isManual[1])]_vars

\* the units the lines take from lot id
RECURSIVE TakenFrom(_, _)
TakenFrom(lines, id) ==
    IF lines = <<>> THEN 0
    ELSE (IF Head(lines).stockItemId = id THEN Head(lines).qtyAllocated ELSE 0)
           + TakenFrom(Tail(lines), id)

\* the step in which the createSale of task t commits
Commits(t) == Ends(t) /\ t.pc = "cs_commit" /\ response' = Ok

RowsOfSale(table, id) == {k \in 1..Len(table) : table[k].saleId = id}

HasRepeatedVariant(items) ==
    \E i, j \in 1..Len(items) : i # j /\ items[i].productVariantId = items[j].productVariantId

\* the units the first n rows of the sale took from lot id
RECURSIVE TakenByRows(_, _, _, _)
TakenByRows(lg, first, n, id) ==
    IF n = 0 THEN 0
    ELSE (IF lg[first + n - 1].stockItemId = id THEN lg[first + n - 1].quantityChange ELSE 0)
           + TakenByRows(lg, first, n - 1, id)

\* C29: when a createSale with two items of one variant commits, no lot loses
\* more than it held when the transaction started, and the previousQty of each
\* SALE row is the quantity its lot held just before that row's decrement
C29_RepeatedVariantWithinStock ==
    [][\A t \in BagToSet(tasks) :
          (Commits(t) /\ HasRepeatedVariant(t.req.items)) =>
              LET first == Len(logs) + 1
                  n == Len(logs') - Len(logs)
              IN /\ \A id \in DOMAIN lots :
                      TakenByRows(logs', first, n, id) <= lots[id].quantity
                 /\ \A k \in 1..n :
                      LET row == logs'[Len(logs) + k]
                      IN row.previousQty
                           = lots[row.stockItemId].quantity
                               - TakenByRows(logs', first, k - 1, row.stockItemId)]_vars

\* C30: the write of a createManual or of a revert moves the lot from the
\* quantity it holds at the write by the operation's own change; it never
\* puts back a quantity computed from what the lot held before a change that
\* was committed since
C30_NoLostUpdate ==
    [][\A t \in BagToSet(tasks) :
          (Ends(t) /\ t.pc \in {"cm_tx", "rv_tx"} /\ response' = Ok) =>
              LET id == t.local.stockItemId
                  change == IF t.pc = "cm_tx" THEN t.req.quantityChange
                            ELSE 0 - logs[t.req.logId].quantityChange
              IN lots'[id].quantity = lots[id].quantity + change]_vars

====
